---------------------------- MODULE Spec2Model ----------------------------
(* Model of the inference-graph pipeline of MinesweeperResearch:            *)
(*   scripts/height_calculator.py  (process_csv: the Height column)         *)
(*   scripts/InferenceGraph.py     (build_graph_data: nodes, merge, edges)  *)
(* A CSV field is a sequence of one-character strings, or the value None    *)
(* (csv.DictReader's restval for a short line), or a missing key (the       *)
(* header has no such column).  Numbers are kept in tenths, with a flag     *)
(* telling a Python float from a Python int.                                *)
EXTENDS Integers, Sequences, FiniteSets, TLC

(***************************************************************************)
(* Bounds                                                                  *)
(***************************************************************************)
MaxRows == 3

(***************************************************************************)
(* Strings and Python's conversions                                        *)
(***************************************************************************)
Str(s)  == [k |-> "str", s |-> s]
None    == [k |-> "none", s |-> <<>>]
Missing == [k |-> "missing", s |-> <<>>]

DigitChars == {"0", "1", "2", "3", "4", "5", "6", "7", "8", "9"}
WhiteSpace == {" "}

DigitVal(c) ==
    CASE c = "0" -> 0 [] c = "1" -> 1 [] c = "2" -> 2 [] c = "3" -> 3
      [] c = "4" -> 4 [] c = "5" -> 5 [] c = "6" -> 6 [] c = "7" -> 7
      [] c = "8" -> 8 [] c = "9" -> 9

DigitChar(d) ==
    CASE d = 0 -> "0" [] d = 1 -> "1" [] d = 2 -> "2" [] d = 3 -> "3"
      [] d = 4 -> "4" [] d = 5 -> "5" [] d = 6 -> "6" [] d = 7 -> "7"
      [] d = 8 -> "8" [] d = 9 -> "9"

RECURSIVE LStrip(_)
LStrip(s) == IF s # <<>> /\ Head(s) \in WhiteSpace THEN LStrip(Tail(s)) ELSE s

RECURSIVE RStrip(_)
RStrip(s) ==
    IF s # <<>> /\ s[Len(s)] \in WhiteSpace
    THEN RStrip(SubSeq(s, 1, Len(s) - 1)) ELSE s

\* str.strip()
Strip(s) == RStrip(LStrip(s))

\* str.isdigit()
IsDigit(s) == s # <<>> /\ \A i \in 1..Len(s) : s[i] \in DigitChars

RECURSIVE DigitsVal(_)
DigitsVal(s) ==
    IF s = <<>> THEN 0
    ELSE 10 * DigitsVal(SubSeq(s, 1, Len(s) - 1)) + DigitVal(s[Len(s)])

\* int(str): surrounding white space, an optional sign, decimal digits.
\* ok = FALSE stands for ValueError.
PyInt(s) ==
    LET t == Strip(s)
        signed == t # <<>> /\ Head(t) \in {"-", "+"}
        body == IF signed THEN Tail(t) ELSE t
    IN  IF IsDigit(body)
        THEN [ok |-> TRUE,
              v |-> IF signed /\ Head(t) = "-" THEN 0 - DigitsVal(body)
                    ELSE DigitsVal(body)]
        ELSE [ok |-> FALSE, v |-> 0]

\* str(n) for n >= 0 as a string of the model's key strings
RECURSIVE NatName(_)
NatName(n) ==
    LET d == CASE n % 10 = 0 -> "0" [] n % 10 = 1 -> "1" [] n % 10 = 2 -> "2"
               [] n % 10 = 3 -> "3" [] n % 10 = 4 -> "4" [] n % 10 = 5 -> "5"
               [] n % 10 = 6 -> "6" [] n % 10 = 7 -> "7" [] n % 10 = 8 -> "8"
               [] n % 10 = 9 -> "9"
    IN  IF n < 10 THEN d ELSE NatName(n \div 10) \o d

RECURSIVE NatStr(_)
NatStr(n) ==
    IF n < 10 THEN <<DigitChar(n)>>
    ELSE Append(NatStr(n \div 10), DigitChar(n % 10))

\* str(n) of an integer
IntStr(n) == IF n < 0 THEN <<"-">> \o NatStr(0 - n) ELSE NatStr(n)

\* str.split(sep) for a one-character separator: a sequence of strings.
RECURSIVE Split(_, _)
Split(s, sep) ==
    IF \A i \in 1..Len(s) : s[i] # sep THEN <<s>>
    ELSE LET p == CHOOSE i \in 1..Len(s) :
                      s[i] = sep /\ \A j \in 1..(i - 1) : s[j] # sep
         IN  <<SubSeq(s, 1, p - 1)>> \o Split(SubSeq(s, p + 1, Len(s)), sep)

\* str.replace(pat, ''): every non-overlapping occurrence, left to right.
RECURSIVE RemoveAll(_, _)
RemoveAll(s, pat) ==
    IF Len(s) < Len(pat) THEN s
    ELSE IF SubSeq(s, 1, Len(pat)) = pat
         THEN RemoveAll(SubSeq(s, Len(pat) + 1, Len(s)), pat)
         ELSE <<Head(s)>> \o RemoveAll(Tail(s), pat)

\* the substring test  pat in s
Contains(s, pat) ==
    \E i \in 1..(Len(s) - Len(pat) + 1) : SubSeq(s, i, i + Len(pat) - 1) = pat

\* s.startswith(pat)
StartsWith(s, pat) == Len(s) >= Len(pat) /\ SubSeq(s, 1, Len(pat)) = pat

HintsPrefix == <<"H", "i", "n", "t", "s", ":">>
HINT == <<"H", "I", "N", "T">>
SAFE == <<"S", "A", "F", "E">>
MINE == <<"M", "I", "N", "E">>
CellIndexHeader == <<"C", "e", "l", "l", "I", "n", "d", "e", "x">>

\* the members of a set of integers from the largest down
RECURSIVE SortSetDescending(_)
SortSetDescending(S) ==
    IF S = {} THEN <<>>
    ELSE LET m == CHOOSE x \in S : \A y \in S : x >= y
         IN  <<m>> \o SortSetDescending(S \ {m})


\* sorted(cells) for a set of integers
RECURSIVE SortSet(_)
SortSet(S) ==
    IF S = {} THEN <<>>
    ELSE LET m == CHOOSE x \in S : \A y \in S : x <= y
         IN  <<m>> \o SortSet(S \ {m})

Range(f) == {f[i] : i \in DOMAIN f}

(***************************************************************************)
(* Numbers: t is the value in tenths, f tells a float from an int          *)
(***************************************************************************)
IntNum(n)   == [t |-> 10 * n, f |-> FALSE]
FloatNum(t) == [t |-> t, f |-> TRUE]
NumAdd(a, b) == [t |-> a.t + b.t, f |-> a.f \/ b.f]
\* max(list) of a non-empty collection of numbers
NumMax(S) == CHOOSE m \in S : \A x \in S : x.t <= m.t

\* str(number), as csv.DictWriter writes it
NumStr(n) ==
    LET a == IF n.t < 0 THEN 0 - n.t ELSE n.t
        sign == IF n.t < 0 THEN <<"-">> ELSE <<>>
    IN  IF n.f THEN sign \o NatStr(a \div 10) \o <<".">> \o NatStr(a % 10)
        ELSE sign \o NatStr(a \div 10)


(***************************************************************************)
(* State                                                                   *)
(***************************************************************************)
VARIABLES
    rows,           \* process_csv: the rows read from the input CSV
    config,         \* process_csv: the resolved increment table
    cell_heights,   \* process_csv: cell -> height
    rows_sorted,    \* process_csv: indices of rows in processing order
    hpos,           \* process_csv: rows of rows_sorted already processed
    out_rows,       \* process_csv: the rows of the written CSV
    grows,          \* build_graph_data: its argument rows
    merge_siblings, \* build_graph_data: its argument merge_siblings
    gpos,           \* build_graph_data: rows already ingested
    cell_data,      \* build_graph_data: cell -> result, height, level, parents
    raw_edges,      \* build_graph_data: sequence of <<src, dst, level>>
    groups,         \* build_graph_data: group key -> set of cells
    nodes,          \* build_graph_data: node id -> cells, result, height, level
    cell_to_node,   \* build_graph_data: cell -> node id
    edges,          \* build_graph_data: the returned list of edges
    pc              \* the statement the run is at

hvars == <<rows, config, cell_heights, rows_sorted, hpos, out_rows>>
gvars == <<grows, merge_siblings, gpos, cell_data, raw_edges, groups, nodes,
           cell_to_node, edges>>
vars == <<rows, config, cell_heights, rows_sorted, hpos, out_rows, grows,
          merge_siblings, gpos, cell_data, raw_edges, groups, nodes,
          cell_to_node, edges, pc>>

Empty == [x \in {} |-> 0]

\* f with f[k] = v, as the dict assignment  f[k] = v
Put(f, k, v) == [x \in DOMAIN f \cup {k} |-> IF x = k THEN v ELSE f[x]]

\* row.get(key, default)
Get(field, default) == IF field.k = "missing" THEN default ELSE field

\* a Python int passed where a field value is expected
PyIntVal(n) == [k |-> "int", s |-> <<n>>]

(***************************************************************************)
(* height_calculator.py                                                    *)
(***************************************************************************)
DEFAULT_CONFIG ==
    [k \in {"lv1_depth1", "lv1_other", "lv2", "lv3", "lv4", "lv5", "lv6"} |->
        CASE k = "lv1_depth1" -> IntNum(1)
          [] k = "lv1_other" -> IntNum(0)
          [] k = "lv2" -> IntNum(1)
          [] k = "lv3" -> IntNum(2)
          [] k = "lv4" -> IntNum(6)
          [] k = "lv5" -> FloatNum(66)
          [] k = "lv6" -> FloatNum(72)]

\* config = DEFAULT_CONFIG.copy(); config.update(user_config)
load_config(user_config) ==
    [k \in DOMAIN DEFAULT_CONFIG \cup DOMAIN user_config |->
        IF k \in DOMAIN user_config THEN user_config[k] ELSE DEFAULT_CONFIG[k]]

\* config.get(key, default)
ConfigGet(cfg, key, default) == IF key \in DOMAIN cfg THEN cfg[key] ELSE default

\* f"lv{level}"
LevelKey(level) ==
    IF level < 0 THEN "lv-" \o NatName(0 - level) ELSE "lv" \o NatName(level)

hc_safe_int(value, default) ==
    IF value.k = "none" \/ (value.k = "str" /\ value.s = <<>>) THEN default
    ELSE IF value.k = "int" THEN value.s[1]
    ELSE IF PyInt(value.s).ok THEN PyInt(value.s).v ELSE default

parse_trigger_cells(trigger_str) ==
    IF trigger_str.k = "none" \/ Strip(trigger_str.s) = <<>> THEN {}
    ELSE LET parts == Split(trigger_str.s, ",")
         IN  {DigitsVal(Strip(parts[i])) :
                  i \in {j \in 1..Len(parts) : IsDigit(Strip(parts[j]))}}

\* calculate_height without its first branch
calculate_height_no_initial(depth, level, parent_heights, cfg) ==
    LET max_parent_height ==
            IF parent_heights # {} THEN NumMax(parent_heights) ELSE IntNum(0)
        increment ==
            IF level = 1
            THEN IF depth = 1
                 THEN ConfigGet(cfg, "lv1_depth1", IntNum(1))
                 ELSE ConfigGet(cfg, "lv1_other", IntNum(0))
            ELSE ConfigGet(cfg, LevelKey(level), IntNum(level))
    IN  NumAdd(max_parent_height, increment)

\* calculate_height with 1 for a row that finds no parent height
calculate_height_floor_one(depth, level, parent_heights, cfg) ==
    IF depth = 0 THEN IntNum(0)
    ELSE LET max_parent_height ==
                 IF parent_heights # {} THEN NumMax(parent_heights)
                 ELSE IntNum(1)
             increment ==
                 IF level = 1
                 THEN IF depth = 1
                      THEN ConfigGet(cfg, "lv1_depth1", IntNum(1))
                      ELSE ConfigGet(cfg, "lv1_other", IntNum(0))
                 ELSE ConfigGet(cfg, LevelKey(level), IntNum(level))
         IN  NumAdd(max_parent_height, increment)


\* calculate_height with 0 for a level that has no key in the table
calculate_height_zero_default(depth, level, parent_heights, cfg) ==
    IF depth = 0 THEN IntNum(0)
    ELSE LET max_parent_height ==
                 IF parent_heights # {} THEN NumMax(parent_heights)
                 ELSE IntNum(0)
             increment ==
                 IF level = 1
                 THEN IF depth = 1
                      THEN ConfigGet(cfg, "lv1_depth1", IntNum(1))
                      ELSE ConfigGet(cfg, "lv1_other", IntNum(0))
                 ELSE ConfigGet(cfg, LevelKey(level), IntNum(0))
         IN  NumAdd(max_parent_height, increment)


calculate_height(depth, level, parent_heights, cfg) ==
    IF depth = 0 THEN IntNum(0)
    ELSE LET max_parent_height ==
                 IF parent_heights # {} THEN NumMax(parent_heights)
                 ELSE IntNum(0)
             increment ==
                 IF level = 1
                 THEN IF depth = 1
                      THEN ConfigGet(cfg, "lv1_depth1", IntNum(1))
                      ELSE ConfigGet(cfg, "lv1_other", IntNum(0))
                 ELSE ConfigGet(cfg, LevelKey(level), IntNum(level))
         IN  NumAdd(max_parent_height, increment)

\* the cells one row adds to hint_cells from its SourceHints field
SourceHintCells(row) ==
    LET source_str0 == Get(row.SourceHints, Str(<<>>)).s
        source_str ==
            IF source_str0 # <<>> /\ Contains(source_str0, HintsPrefix)
            THEN RemoveAll(source_str0, HintsPrefix) ELSE source_str0
        parts == Split(source_str, ",")
    IN  {DigitsVal(Strip(parts[i])) :
             i \in {j \in 1..Len(parts) : IsDigit(Strip(parts[j]))}}

RowCell(row)     == hc_safe_int(Get(row.CellIndex, PyIntVal(-1)), -1)
RowDepth(row)    == hc_safe_int(Get(row.GenerationDepth, PyIntVal(0)), 0)
\* the level of a row with 1 where the field cannot be parsed
RowLevelDefaultOne(row) == hc_safe_int(Get(row.DifficultyLevel, PyIntVal(1)), 1)

RowLevel(row)    == hc_safe_int(Get(row.DifficultyLevel, PyIntVal(1)), 0)
RowTriggers(row) == parse_trigger_cells(Get(row.TriggerCells, Str(<<>>)))

hint_cells(rs) ==
    UNION {SourceHintCells(rs[i]) \cup RowTriggers(rs[i]) : i \in 1..Len(rs)}
csv_cells(rs) == {RowCell(rs[i]) : i \in 1..Len(rs)} \cap Nat
initial_hints(rs) == hint_cells(rs) \ csv_cells(rs)

\* sorted(rows, key=depth): a stable sort, as indices into rows
SortByDepth(rs) ==
    LET n == Len(rs)
        before(j, i) ==
            \/ RowDepth(rs[j]) < RowDepth(rs[i])
            \/ RowDepth(rs[j]) = RowDepth(rs[i]) /\ j < i
        rank(i) == Cardinality({j \in 1..n : before(j, i)}) + 1
    IN  [p \in 1..n |-> CHOOSE i \in 1..n : rank(i) = p]

\* process_csv, lines 128-159.  None.split raises AttributeError.
CollectHints ==
    /\ pc = "hints"
    /\ IF \E i \in 1..Len(rows) : rows[i].SourceHints.k = "none"
       THEN /\ pc' = "raised"
            /\ UNCHANGED cell_heights
       ELSE /\ cell_heights' = [c \in initial_hints(rows) |-> IntNum(0)]
            /\ pc' = "sort"
    /\ UNCHANGED <<rows, config, rows_sorted, hpos, out_rows>>
    /\ UNCHANGED gvars

\* process_csv, line 162
SortRows ==
    /\ pc = "sort"
    /\ rows_sorted' = SortByDepth(rows)
    /\ hpos' = 0
    /\ pc' = "height"
    /\ UNCHANGED <<rows, config, cell_heights, out_rows>>
    /\ UNCHANGED gvars

\* the parent heights of a row read from SourceHints as well
ParentHeightsWithSources(row, heights) ==
    {heights[tc] :
         tc \in (RowTriggers(row) \cup SourceHintCells(row)) \cap DOMAIN heights}

\* the heights the loop body finds for the row's trigger cells
ParentHeights(row, heights) ==
    {heights[tc] : tc \in RowTriggers(row) \cap DOMAIN heights}


\* process_csv, lines 165-180: one iteration of the loop
ComputeHeight ==
    /\ pc = "height"
    /\ hpos < Len(rows)
    /\ LET i == rows_sorted[hpos + 1]
           row == rows[i]
           height == calculate_height(RowDepth(row), RowLevel(row),
                                      ParentHeights(row, cell_heights), config)
       IN  /\ cell_heights' = Put(cell_heights, RowCell(row), height)
           /\ rows' = [rows EXCEPT ![i].Height = [k |-> "num", s |-> <<height>>]]
    /\ hpos' = hpos + 1
    /\ UNCHANGED <<config, rows_sorted, out_rows, pc>>
    /\ UNCHANGED gvars

\* process_csv, lines 165-180: the loop over the rows still to take, from
\* the heights so far; the result has the final cell_heights and the Height
\* of every row
RECURSIVE HeightLoop(_, _, _, _)
HeightLoop(rs, order, acc, cfg) ==
    IF order = <<>> THEN acc
    ELSE LET i == Head(order)
             height == calculate_height(RowDepth(rs[i]), RowLevel(rs[i]),
                                        ParentHeights(rs[i], acc.cell_heights),
                                        cfg)
         IN  HeightLoop(rs, Tail(order),
                        [cell_heights |->
                             Put(acc.cell_heights, RowCell(rs[i]), height),
                         row_heights |-> Put(acc.row_heights, i, height)],
                        cfg)

\* process_csv, lines 128-180, as a function of the rows and the table
HeightPass(rs, cfg) ==
    HeightLoop(rs, SortByDepth(rs),
               [cell_heights |-> [c \in initial_hints(rs) |-> IntNum(0)],
                row_heights |-> Empty],
               cfg)


\* csv.DictWriter.writerow: None is written as '', a number as str(number)
Written(field) ==
    CASE field.k = "none" -> Str(<<>>)
      [] field.k = "num" -> Str(NumStr(field.s[1]))
      [] OTHER -> field

WrittenRow(row) ==
    [CellIndex |-> Written(row.CellIndex), Result |-> Written(row.Result),
     GenerationDepth |-> Written(row.GenerationDepth),
     DifficultyLevel |-> Written(row.DifficultyLevel),
     SourceHints |-> Written(row.SourceHints),
     TriggerCells |-> Written(row.TriggerCells),
     Height |-> Written(row.Height)]

\* process_csv, lines 183-189: the output keeps the input order
WriteOutput ==
    /\ pc = "height"
    /\ hpos = Len(rows)
    /\ out_rows' = [i \in 1..Len(rows) |-> WrittenRow(rows[i])]
    /\ pc' = "written"
    /\ UNCHANGED <<rows, config, cell_heights, rows_sorted, hpos>>
    /\ UNCHANGED gvars

(***************************************************************************)
(* InferenceGraph.py                                                       *)
(***************************************************************************)
\* not value: None and '' are falsy
Falsy(value) == value.k = "none" \/ value.s = <<>>

ig_safe_int(value, default) ==
    IF Falsy(value) \/ Strip(value.s) = <<>> THEN default
    ELSE IF PyInt(Strip(value.s)).ok THEN PyInt(Strip(value.s)).v ELSE default

\* the list of the integers among the comma-separated parts
RECURSIVE IntParts(_)
IntParts(parts) ==
    IF parts = <<>> THEN <<>>
    ELSE LET x == Strip(Head(parts))
         IN  IF x # <<>> /\ PyInt(x).ok
             THEN <<PyInt(x).v>> \o IntParts(Tail(parts))
             ELSE IntParts(Tail(parts))

parse_cell_list(cell_str) ==
    IF Falsy(cell_str) \/ Strip(cell_str.s) = <<>> THEN <<>>
    ELSE IntParts(Split(cell_str.s, ","))

\* the row is skipped, but a negative cell index is let through
SkipRowNoSign(row) ==
    LET cell_idx_str == Get(row.CellIndex, Str(<<>>))
    IN  \/ Falsy(cell_idx_str)
        \/ Strip(cell_idx_str.s) = <<>>
        \/ cell_idx_str.s = CellIndexHeader

\* lines 84-90: the row is skipped
SkipRow(row) ==
    LET cell_idx_str == Get(row.CellIndex, Str(<<>>))
    IN  \/ Falsy(cell_idx_str)
        \/ Strip(cell_idx_str.s) = <<>>
        \/ cell_idx_str.s = CellIndexHeader
        \/ ig_safe_int(cell_idx_str, -1) < 0

\* lines 92-94
NormResult(raw) ==
    LET result == Strip(raw) IN IF StartsWith(result, HINT) THEN HINT ELSE result

\* lines 96-98
GraphHeight(row) ==
    LET height == ig_safe_int(Get(row.Height, Str(<<>>)), -1)
    IN  IF height < 0
        THEN ig_safe_int(Get(row.GenerationDepth, Str(<<>>)), 0)
        ELSE height

GraphLevel(row)   == ig_safe_int(Get(row.DifficultyLevel, Str(<<>>)), 0)
GraphSources(row) == parse_cell_list(Get(row.SourceHints, Str(<<>>)))
GraphTriggers(row) == parse_cell_list(Get(row.TriggerCells, Str(<<>>)))

\* the raw edges of a row, level 0 included
RowEdgesAnyLevel(row) ==
    LET cell_idx == ig_safe_int(Get(row.CellIndex, Str(<<>>)), -1)
        level == GraphLevel(row)
        srcs == GraphSources(row) \o GraphTriggers(row)
    IN  IF level >= 0
        THEN [i \in 1..Len(srcs) |-> <<srcs[i], cell_idx, level>>]
        ELSE <<>>

\* lines 113-118: the raw edges one row appends
RowEdges(row) ==
    LET cell_idx == ig_safe_int(Get(row.CellIndex, Str(<<>>)), -1)
        level == GraphLevel(row)
        srcs == GraphSources(row) \o GraphTriggers(row)
    IN  IF level > 0
        THEN [i \in 1..Len(srcs) |-> <<srcs[i], cell_idx, level>>]
        ELSE <<>>

\* lines 83-118: one iteration of the loop.  None.strip raises AttributeError.
IngestRow ==
    /\ pc = "ingest"
    /\ gpos < Len(grows)
    /\ LET row == grows[gpos + 1]
           cell_idx == ig_safe_int(Get(row.CellIndex, Str(<<>>)), -1)
       IN  IF SkipRow(row)
           THEN UNCHANGED <<cell_data, raw_edges, pc>>
           ELSE IF Get(row.Result, Str(<<>>)).k = "none"
           THEN /\ pc' = "raised"
                /\ UNCHANGED <<cell_data, raw_edges>>
           ELSE /\ cell_data' =
                      Put(cell_data, cell_idx,
                          [result |-> NormResult(Get(row.Result, Str(<<>>)).s),
                           height |-> GraphHeight(row),
                           level |-> GraphLevel(row),
                           parents |-> Range(GraphSources(row))
                                           \cup Range(GraphTriggers(row))])
                /\ raw_edges' = raw_edges \o RowEdges(row)
                /\ UNCHANGED pc
    /\ gpos' = gpos + 1
    /\ UNCHANGED <<grows, merge_siblings, groups, nodes, cell_to_node, edges>>
    /\ UNCHANGED hvars

\* the grouping key without the special case of height 0
GroupKeyAllHeights(data, c, merge) ==
    IF merge
    THEN <<data[c].height, data[c].parents, data[c].result>>
    ELSE <<data[c].height, {}, data[c].result, c>>

\* lines 126-129 and 133: the grouping key of a cell
GroupKey(data, c, merge) ==
    IF merge /\ data[c].height # 0
    THEN <<data[c].height, data[c].parents, data[c].result>>
    ELSE <<data[c].height, {}, data[c].result, c>>

\* lines 120-134: key -> the cells with that key
GroupCells ==
    /\ pc = "ingest"
    /\ gpos = Len(grows)
    /\ groups' =
          LET keys == {GroupKey(cell_data, c, merge_siblings) : c \in DOMAIN cell_data}
          IN  [key \in keys |->
                  {c \in DOMAIN cell_data :
                       GroupKey(cell_data, c, merge_siblings) = key}]
    /\ pc' = "nodes"
    /\ UNCHANGED <<grows, merge_siblings, gpos, cell_data, raw_edges, nodes,
                   cell_to_node, edges>>
    /\ UNCHANGED hvars

\* a node id made of the last digit of the cell alone
NodeIdLastDigit(c) == <<"g", "_">> \o IntStr(c % 10)

\* f"g_{cell}"
NodeId(c) == <<"g", "_">> \o IntStr(c)

\* nodes that take result, height and level from their largest member
MakeNodesLastMember ==
    /\ pc = "nodes"
    /\ nodes' =
          [id \in {NodeId(SortSet(groups[key])[1]) : key \in DOMAIN groups} |->
              LET key == CHOOSE k \in DOMAIN groups :
                             NodeId(SortSet(groups[k])[1]) = id
                  cells_sorted == SortSet(groups[key])
                  data == cell_data[cells_sorted[Len(cells_sorted)]]
              IN  [cells |-> cells_sorted, result |-> data.result,
                   height |-> data.height, level |-> data.level]]
    /\ cell_to_node' =
          [c \in UNION Range(groups) |->
              NodeId(SortSet(CHOOSE g \in Range(groups) : c \in g)[1])]
    /\ pc' = "edges"
    /\ UNCHANGED <<grows, merge_siblings, gpos, cell_data, raw_edges, groups,
                   edges>>
    /\ UNCHANGED hvars


\* lines 136-156
MakeNodes ==
    /\ pc = "nodes"
    /\ nodes' =
          [id \in {NodeId(SortSet(groups[key])[1]) : key \in DOMAIN groups} |->
              LET key == CHOOSE k \in DOMAIN groups :
                             NodeId(SortSet(groups[k])[1]) = id
                  cells_sorted == SortSet(groups[key])
                  data == cell_data[cells_sorted[1]]
              IN  [cells |-> cells_sorted, result |-> data.result,
                   height |-> data.height, level |-> data.level]]
    /\ cell_to_node' =
          [c \in UNION Range(groups) |->
              NodeId(SortSet(CHOOSE g \in Range(groups) : c \in g)[1])]
    /\ pc' = "edges"
    /\ UNCHANGED <<grows, merge_siblings, gpos, cell_data, raw_edges, groups,
                   edges>>
    /\ UNCHANGED hvars

\* cell_to_node[cell]; a cell without an entry raises KeyError
NodeOf(c, ctn) == IF c \in DOMAIN ctn THEN ctn[c] ELSE <<"KeyError">>

\* the raw edge is kept although both ends have the same node
EdgeKeptSelfLoop(e, ctn) == e[1] \in DOMAIN ctn /\ e[2] \in DOMAIN ctn

\* the raw edge is kept although its source has no node
EdgeKeptUnmapped(e, ctn) ==
    /\ e[2] \in DOMAIN ctn
    /\ e[1] \in DOMAIN ctn => ctn[e[1]] # ctn[e[2]]

\* the raw edge is kept whenever its child has a node
EdgeKeptAny(e, ctn) == e[2] \in DOMAIN ctn

\* lines 161-165: the raw edge becomes an edge between two nodes
EdgeKept(e, ctn) ==
    /\ e[1] \in DOMAIN ctn
    /\ e[2] \in DOMAIN ctn
    /\ NodeOf(e[1], ctn) # NodeOf(e[2], ctn)

NodeEdge(e, ctn) == <<NodeOf(e[1], ctn), NodeOf(e[2], ctn), e[3]>>

\* lines 159-166: the edges added to edge_set, one per kept raw edge
RECURSIVE ConvertedEdges(_, _)
ConvertedEdges(raw, ctn) ==
    IF raw = <<>> THEN <<>>
    ELSE IF EdgeKept(Head(raw), ctn)
         THEN <<NodeEdge(Head(raw), ctn)>> \o ConvertedEdges(Tail(raw), ctn)
         ELSE ConvertedEdges(Tail(raw), ctn)

\* the sequences that list every element of S once
Listings(S) ==
    {f \in [1..Cardinality(S) -> S] : \A x \in S : \E i \in DOMAIN f : f[i] = x}

\* the edges collected in a list instead of a set
EdgeListsNoSet(added) == {added}

\* edge_set, then list(edge_set): a set keeps one copy of each triple, and
\* the order in which a set is listed is not fixed
EdgeLists(added) == Listings(Range(added))

\* lines 158-170
ConvertEdges ==
    /\ pc = "edges"
    /\ edges' \in EdgeLists(ConvertedEdges(raw_edges, cell_to_node))
    /\ pc' = "done"
    /\ UNCHANGED <<grows, merge_siblings, gpos, cell_data, raw_edges, groups,
                   nodes, cell_to_node>>
    /\ UNCHANGED hvars

(***************************************************************************)
(* Inputs                                                                  *)
(***************************************************************************)
Row(cell, result, depth, level, src, trig, height) ==
    [CellIndex |-> cell, Result |-> result, GenerationDepth |-> depth,
     DifficultyLevel |-> level, SourceHints |-> src, TriggerCells |-> trig,
     Height |-> height]

SeqUpTo(S, n) == UNION {[1..k -> S] : k \in 0..n}

\* rows of a trace without a Height column: cell, depth, level, triggers
HRow(cell, depth, level, trig) ==
    Row(Str(cell), Str(SAFE), Str(depth), Str(level), Str(<<>>), Str(trig),
        Missing)

HeightRowDomain ==
    {HRow(<<"5">>, <<"0">>, <<"0">>, <<>>),
     HRow(<<"5">>, <<"1">>, <<"1">>, <<>>),
     HRow(<<"5">>, <<"1">>, <<"2">>, <<>>),
     HRow(<<"1", "0">>, <<"1">>, <<"1">>, <<"5">>),
     HRow(<<"1", "0">>, <<"2">>, <<"2">>, <<"5">>),
     HRow(<<"1", "0">>, <<"0">>, <<"2">>, <<"5">>),
     HRow(<<"1", "0">>, <<"1">>, <<"0">>, <<"5">>),
     HRow(<<"2", "0">>, <<"2">>, <<"2">>, <<"1", "0">>),
     HRow(<<"2", "0">>, <<"2">>, <<"1">>, <<"5", ",", " ", "1", "0">>),
     HRow(<<"2", "0">>, <<"1">>, <<"2">>, <<"1", "0">>),
     HRow(<<"2", "0">>, <<"2">>, <<"2">>, <<"2", "0">>),
     HRow(<<"2", "0">>, <<"2">>, <<"5">>, <<"1", "0">>)}

\* the user's configuration file: none, or one that overrides two keys
UserConfigs ==
    {Empty,
     [k \in {"lv1_other", "lv2"} |->
         IF k = "lv1_other" THEN IntNum(1) ELSE IntNum(3)]}

\* rows handed to build_graph_data: cell, result, height, level, sources,
\* triggers
GRow(cell, result, height, level, src, trig) ==
    Row(Str(cell), Str(result), Str(height), Str(level), Str(src), Str(trig),
        Str(height))

HintResult == <<"H", "I", "N", "T", "(", "3", ")">>

GraphRowDomain ==
    {GRow(<<"5">>, HintResult, <<"0">>, <<"0">>, <<>>, <<>>),
     GRow(<<"1", "0">>, HINT, <<"0">>, <<"0">>, <<>>, <<>>),
     GRow(<<"1", "0">>, SAFE, <<"1">>, <<"1">>, <<>>, <<"5">>),
     GRow(<<"1", "0">>, SAFE, <<"1">>, <<"0">>, <<>>, <<"5">>),
     GRow(<<"2", "0">>, SAFE, <<"2">>, <<"2">>, <<>>, <<"1", "0">>),
     GRow(<<"2", "0">>, SAFE, <<"2">>, <<"2">>, <<"1", "0">>, <<"1", "0">>),
     GRow(<<"2", "0">>, SAFE, <<"2">>, <<"2">>, <<>>, <<"2", "0", ",", "2", "1">>),
     GRow(<<"2", "1">>, SAFE, <<"2">>, <<"2">>, <<>>, <<"1", "0">>),
     GRow(<<"2", "1">>, MINE, <<"2">>, <<"2">>, <<>>, <<"1", "0">>),
     GRow(<<"2", "1">>, SAFE, <<"3">>, <<"2">>, <<>>, <<"1", "0">>),
     GRow(<<"2", "1">>, SAFE, <<"0">>, <<"2">>, <<>>, <<"1", "0">>),
     GRow(<<"2", "1">>, SAFE, <<"2">>, <<"2">>, <<>>, <<"5">>),
     GRow(<<"2", "1">>, SAFE, <<"2">>, <<"1">>, <<>>, <<"2", "1", ",", "2", "0">>)}

\* CellIndex values of rows that are no fact: no such column, a short line,
\* blank, white space, a repeated header, not a number, negative
BadCellIndex ==
    {Missing, None, Str(<<>>), Str(<<" ">>), Str(CellIndexHeader),
     Str(<<"x">>), Str(<<"-", "1">>)}

BadRow(cell) ==
    Row(cell, Str(SAFE), Str(<<"2">>), Str(<<"2">>), Str(<<>>),
        Str(<<"1", "0">>), Str(<<"2">>))

SkipRowDomain ==
    {BadRow(c) : c \in BadCellIndex} \cup
    {GRow(<<"1", "0">>, SAFE, <<"1">>, <<"1">>, <<>>, <<"5">>),
     GRow(<<"2", "0">>, SAFE, <<"2">>, <<"2">>, <<>>, <<"1", "0">>),
     GRow(<<"2", "1">>, SAFE, <<"2">>, <<"2">>, <<>>, <<"1", "0">>)}

(***************************************************************************)
(* Specifications                                                          *)
(***************************************************************************)
GraphIdle ==
    /\ grows = <<>>
    /\ merge_siblings = TRUE
    /\ gpos = 0
    /\ cell_data = Empty
    /\ raw_edges = <<>>
    /\ groups = Empty
    /\ nodes = Empty
    /\ cell_to_node = Empty
    /\ edges = <<>>

\* process_csv(input, output, load_config(user_config))
InitHeight ==
    /\ rows \in SeqUpTo(HeightRowDomain, MaxRows)
    /\ config \in {load_config(u) : u \in UserConfigs}
    /\ cell_heights = Empty
    /\ rows_sorted = <<>>
    /\ hpos = 0
    /\ out_rows = <<>>
    /\ GraphIdle
    /\ pc = "hints"

NextHeight == CollectHints \/ SortRows \/ ComputeHeight \/ WriteOutput

SpecHeight == InitHeight /\ [][NextHeight]_vars

\* build_graph_data(rows, merge_siblings)
InitGraph ==
    /\ rows = <<>>
    /\ config = DEFAULT_CONFIG
    /\ cell_heights = Empty
    /\ rows_sorted = <<>>
    /\ hpos = 0
    /\ out_rows = <<>>
    /\ grows \in SeqUpTo(GraphRowDomain, MaxRows)
    /\ merge_siblings \in BOOLEAN
    /\ gpos = 0
    /\ cell_data = Empty
    /\ raw_edges = <<>>
    /\ groups = Empty
    /\ nodes = Empty
    /\ cell_to_node = Empty
    /\ edges = <<>>
    /\ pc = "ingest"

NextGraph == IngestRow \/ GroupCells \/ MakeNodes \/ ConvertEdges

SpecGraph == InitGraph /\ [][NextGraph]_vars

\* build_graph_data on rows some of which have no usable CellIndex
InitSkip ==
    /\ rows = <<>>
    /\ config = DEFAULT_CONFIG
    /\ cell_heights = Empty
    /\ rows_sorted = <<>>
    /\ hpos = 0
    /\ out_rows = <<>>
    /\ grows \in SeqUpTo(SkipRowDomain, MaxRows)
    /\ merge_siblings \in BOOLEAN
    /\ gpos = 0
    /\ cell_data = Empty
    /\ raw_edges = <<>>
    /\ groups = Empty
    /\ nodes = Empty
    /\ cell_to_node = Empty
    /\ edges = <<>>
    /\ pc = "ingest"

SpecSkip == InitSkip /\ [][NextGraph]_vars

\* main of InferenceGraph.py reads the CSV that process_csv wrote
ReadWritten ==
    /\ pc = "written"
    /\ grows' = out_rows
    /\ merge_siblings' \in BOOLEAN
    /\ pc' = "ingest"
    /\ UNCHANGED <<gpos, cell_data, raw_edges, groups, nodes, cell_to_node,
                   edges>>
    /\ UNCHANGED hvars

Init == InitHeight

Next == NextHeight \/ ReadWritten \/ NextGraph

Spec == Init /\ [][Next]_vars

(***************************************************************************)
(* Height propagation: C1, C2, C3                                          *)
(***************************************************************************)
\* the cells a row names as parents, in either list
RowParents(row) == RowTriggers(row) \cup SourceHintCells(row)

\* the input a correct producer writes: one row per cell, no cell its own
\* parent, and depth never decreasing from a parent row to its child row
OrderedInput ==
    /\ \A i, j \in 1..Len(rows) : i # j => RowCell(rows[i]) # RowCell(rows[j])
    /\ \A i \in 1..Len(rows) : RowCell(rows[i]) \notin RowParents(rows[i])
    /\ \A i, j \in 1..Len(rows) :
           RowCell(rows[j]) \in RowParents(rows[i])
               => RowDepth(rows[j]) <= RowDepth(rows[i])

\* the increment of the configuration for a level and a depth, in tenths
Increment(level, depth) ==
    IF level = 1
    THEN (IF depth = 1 THEN config["lv1_depth1"].t ELSE config["lv1_other"].t)
    ELSE IF LevelKey(level) \in DOMAIN config THEN config[LevelKey(level)].t
         ELSE 10 * level

\* max(0, the final heights of the row's parent cells), in tenths
ParentFloor(row) ==
    LET hs == {cell_heights[p].t : p \in RowTriggers(row) \cap DOMAIN cell_heights}
    IN  IF hs = {} THEN 0
        ELSE LET m == CHOOSE x \in hs : \A y \in hs : y <= x
             IN  IF m < 0 THEN 0 ELSE m

RowHeight(i) == rows[i].Height.s[1]

\* C1: when process_csv has finished on an ordered input, every row of
\* depth other than 0 has Height = max(0, final heights of its parents) +
\* increment(level, depth).
C1_HeightEquation ==
    (pc = "written" /\ OrderedInput) =>
        \A i \in 1..Len(rows) :
            RowDepth(rows[i]) # 0 =>
                RowHeight(i).t = ParentFloor(rows[i])
                                   + Increment(RowLevel(rows[i]), RowDepth(rows[i]))

\* C2: on an ordered input, when the loop takes a row, the height of every
\* parent of that row that has a row of its own is already computed.
C2_ParentsFirst ==
    (pc = "height" /\ hpos < Len(rows) /\ OrderedInput) =>
        \A tc \in RowTriggers(rows[rows_sorted[hpos + 1]]) \cap csv_cells(rows) :
            tc \in DOMAIN cell_heights

\* C3: a row of depth 0 gets Height 0, in the row and in the written CSV,
\* whatever its level, its triggers and the configuration.
C3_DepthZero ==
    \A i \in 1..Len(rows) :
        RowDepth(rows[i]) = 0 =>
            /\ rows[i].Height.k = "num" => RowHeight(i) = IntNum(0)
            /\ pc = "written" => out_rows[i].Height = Str(<<"0">>)

\* C3 witness: a written depth-0 row of a level with a positive increment
\* whose trigger cell ended with a positive height
C3_Witness ==
    /\ pc = "written"
    /\ \E i \in 1..Len(rows) :
           /\ RowDepth(rows[i]) = 0
           /\ Increment(RowLevel(rows[i]), 1) > 0
           /\ \E p \in RowTriggers(rows[i]) \cap DOMAIN cell_heights :
                  cell_heights[p].t > 0

(***************************************************************************)
(* Merging and edges: C4 .. C9                                             *)
(***************************************************************************)
Built == pc \in {"edges", "done"}

SameNode(c1, c2) == cell_to_node[c1] = cell_to_node[c2]

SameSignature(c1, c2) ==
    /\ cell_data[c1].height = cell_data[c2].height
    /\ cell_data[c1].parents = cell_data[c2].parents
    /\ cell_data[c1].result = cell_data[c2].result

\* C4: with merging on, two distinct cells have the same node exactly when
\* they agree on height, parent set and result kind and the height is not 0;
\* a cell of height 0 is the only member of its node.
C4_MergeIff ==
    (Built /\ merge_siblings) =>
        /\ DOMAIN cell_to_node = DOMAIN cell_data
        /\ \A c1, c2 \in DOMAIN cell_data :
               c1 # c2 =>
                   (SameNode(c1, c2) <=>
                        (SameSignature(c1, c2) /\ cell_data[c1].height # 0))
        /\ \A c \in DOMAIN cell_data :
               cell_data[c].height = 0 => nodes[cell_to_node[c]].cells = <<c>>

\* C4 witness: two cells merged although one row lists the parent twice and
\* the other once, next to two height-0 cells with equal signatures
C4_Witness ==
    /\ pc = "done"
    /\ merge_siblings
    /\ \E c1, c2 \in DOMAIN cell_data :
           /\ c1 # c2
           /\ SameNode(c1, c2)
           /\ \E i, j \in 1..Len(grows) :
                  /\ GraphSources(grows[i]) \o GraphTriggers(grows[i])
                         # GraphSources(grows[j]) \o GraphTriggers(grows[j])
                  /\ ig_safe_int(grows[i].CellIndex, -1) = c1
                  /\ ig_safe_int(grows[j].CellIndex, -1) = c2
    /\ \E c \in DOMAIN cell_data : cell_data[c].height = 0

\* C5: no returned edge has the same node at both ends.
C5_NoSelfLoop ==
    pc = "done" => \A i \in 1..Len(edges) : edges[i][1] # edges[i][2]

\* C5 witness: a raw edge between two different cells of one node
C5_Witness ==
    /\ pc = "done"
    /\ \E i \in 1..Len(raw_edges) :
           /\ raw_edges[i][1] # raw_edges[i][2]
           /\ raw_edges[i][1] \in DOMAIN cell_to_node
           /\ SameNode(raw_edges[i][1], raw_edges[i][2])

\* C6: the returned edge list holds each (from, to, level) triple once.
C6_NoDuplicateEdge ==
    pc = "done" =>
        \A i, j \in 1..Len(edges) : i # j => edges[i] # edges[j]

\* C6 witness: two raw edges of different child cells, and two raw edges of
\* one child cell, that become the same triple
C6_Witness ==
    /\ pc = "done"
    /\ \E i, j \in 1..Len(raw_edges) :
           /\ raw_edges[i][2] # raw_edges[j][2]
           /\ EdgeKept(raw_edges[i], cell_to_node)
           /\ EdgeKept(raw_edges[j], cell_to_node)
           /\ NodeEdge(raw_edges[i], cell_to_node)
                  = NodeEdge(raw_edges[j], cell_to_node)
    /\ \E i, j \in 1..Len(raw_edges) :
           /\ i # j
           /\ raw_edges[i] = raw_edges[j]
           /\ EdgeKept(raw_edges[i], cell_to_node)

\* the scenario of C7: the single fact {cell 10, depth 1, level 1,
\* triggers "5"}
Scenario10 ==
    grows = <<GRow(<<"1", "0">>, SAFE, <<"1">>, <<"1">>, <<>>, <<"5">>)>>

\* C7 as claimed: for the scenario the graph has the edge
\* (node(5), node(10), 1).
C7_HintEdge ==
    (pc = "done" /\ Scenario10) =>
        \E i \in 1..Len(edges) : edges[i] = <<NodeId(5), NodeId(10), 1>>

\* C7 as amended: for the scenario the graph is the single node g_10 of
\* height 1 and has no edge: cell 5 has no node, so (5, 10, 1) is dropped.
C7_NoHintEdge ==
    (pc = "done" /\ Scenario10) =>
        /\ edges = <<>>
        /\ DOMAIN nodes = {NodeId(10)}
        /\ nodes[NodeId(10)].height = 1
        /\ DOMAIN cell_to_node = {10}

C7_Witness == pc = "done" /\ Scenario10 /\ raw_edges = <<<<5, 10, 1>>>>

\* C8: every end of every returned edge is the id of a returned node, and a
\* raw edge with an end that has no node does not stop the run.
C8_EndpointsAreNodes ==
    /\ pc = "done" =>
           \A i \in 1..Len(edges) :
               edges[i][1] \in DOMAIN nodes /\ edges[i][2] \in DOMAIN nodes
    /\ pc = "edges" => ENABLED ConvertEdges

\* C8 witness: a raw edge from a cell without a node, next to a kept edge
C8_Witness ==
    /\ pc = "done"
    /\ \E i \in 1..Len(raw_edges) : raw_edges[i][1] \notin DOMAIN cell_to_node
    /\ edges # <<>>

\* the raw field says level 0
LevelZero(row) == ig_safe_int(Get(row.DifficultyLevel, Str(<<>>)), 0) = 0

\* C9: ingesting a row of level 0 adds no raw edge, and no returned edge
\* has level 0.
C9_LevelZeroNoEdge ==
    /\ [][(pc = "ingest" /\ gpos < Len(grows) /\ LevelZero(grows[gpos + 1]))
              => raw_edges' = raw_edges]_vars
    /\ [](pc = "done" => \A i \in 1..Len(edges) : edges[i][3] # 0)

\* C9 witness: a level-0 row lists a parent that has a node of its own
C9_Witness ==
    /\ pc = "done"
    /\ \E i \in 1..Len(grows) :
           /\ LevelZero(grows[i])
           /\ \E p \in Range(GraphTriggers(grows[i])) :
                  /\ p \in DOMAIN cell_to_node
                  /\ cell_to_node[p] # cell_to_node[ig_safe_int(grows[i].CellIndex, -1)]

(***************************************************************************)
(* Rows without a usable CellIndex: C10                                    *)
(***************************************************************************)
\* the cells of the rows whose CellIndex is a cell number
GoodCells ==
    {DigitsVal(grows[i].CellIndex.s) :
         i \in {j \in 1..Len(grows) : grows[j].CellIndex \notin BadCellIndex}}

\* C10: ingesting a row whose CellIndex is absent, blank, the header name,
\* not a number or negative changes neither cell_data nor raw_edges and
\* goes on to the next row; the cells of the nodes and of cell_to_node are
\* those of the other rows, and every edge joins nodes of such cells.
C10_BadRowSkipped ==
    /\ [][(pc = "ingest" /\ gpos < Len(grows)
             /\ grows[gpos + 1].CellIndex \in BadCellIndex)
              => /\ cell_data' = cell_data
                 /\ raw_edges' = raw_edges
                 /\ gpos' = gpos + 1
                 /\ pc' = "ingest"]_vars
    /\ [](Built =>
            /\ DOMAIN cell_to_node = GoodCells
            /\ \A id \in DOMAIN nodes : Range(nodes[id].cells) \subseteq GoodCells)
    /\ [](pc = "done" =>
            \A i \in 1..Len(edges) :
                \E c \in GoodCells : edges[i][2] = NodeId(c))

\* C10 witness: a row with a bad CellIndex came before a row that became a
\* cell with an edge
C10_Witness ==
    /\ pc = "done"
    /\ \E i, j \in 1..Len(grows) :
           /\ i < j
           /\ grows[i].CellIndex \in BadCellIndex
           /\ grows[j].CellIndex \notin BadCellIndex
    /\ edges # <<>>

(***************************************************************************)
(* Malformed and lenient input: C11, C16, C17, C20                         *)
(***************************************************************************)
\* rows of a trace with defects: a level without a key in the table, an
\* unparseable depth, an empty level, source hints beside triggers, and a
\* short line, which csv.DictReader pads with None
LenientRowDomain ==
    {Row(Str(<<"5">>), Str(HINT), Str(<<"0">>), Str(<<"0">>), Str(<<>>),
         Str(<<>>), Missing),
     Row(Str(<<"5">>), Str(SAFE), Str(<<"1">>), Str(<<"1">>), Str(<<>>),
         Str(<<>>), Missing),
     Row(Str(<<"1", "0">>), Str(SAFE), Str(<<"1">>), Str(<<"2">>), Str(<<>>),
         Str(<<"5">>), Missing),
     Row(Str(<<"1", "0">>), Str(SAFE), Str(<<"1">>), Str(<<"4">>), Str(<<>>),
         Str(<<"5">>), Missing),
     Row(Str(<<"1", "0">>), Str(SAFE), Str(<<"x">>), Str(<<"2">>), Str(<<>>),
         Str(<<"5">>), Missing),
     Row(Str(<<"2", "0">>), Str(SAFE), Str(<<"2">>), Str(<<"7">>),
         Str(<<"1", "0">>), Str(<<"1", "0">>), Missing),
     Row(Str(<<"2", "0">>), Str(SAFE), Str(<<"2">>), Str(<<>>),
         Str(HintsPrefix \o <<"5">>), Str(<<"1", "0">>), Missing),
     Row(Str(<<"2", "1">>), Str(SAFE), Str(<<"2">>), Str(<<"1">>),
         Str(<<"1", "0">>), Str(<<"5">>), Missing),
     Row(Str(<<"2", "1">>), Str(SAFE), Str(<<>>), Str(<<" ">>),
         Str(<<"5">>), Str(<<"x", ",", "1", "0">>), Missing),
     Row(Str(<<"2", "1">>), Str(SAFE), Str(<<"1">>), Str(<<"1">>), None, None,
         Missing)}

\* rows handed to build_graph_data with defects: no Height column, a Height
\* that is no integer, an unparseable depth or level, a line too short to
\* have a Result
LenientGraphDomain ==
    {Row(Str(<<"1", "0">>), Str(SAFE), Str(<<"1">>), Str(<<"1">>), Str(<<>>),
         Str(<<"5">>), Missing),
     Row(Str(<<"2", "0">>), Str(SAFE), Str(<<"x">>), Str(<<"x">>), Str(<<>>),
         Str(<<"1", "0">>), Str(<<"7", ".", "6">>)),
     Row(Str(<<"2", "0">>), Str(SAFE), Str(<<>>), Str(<<>>), Missing,
         Str(<<"1", "0">>), Str(<<>>)),
     Row(Str(<<"2", "1">>), Str(SAFE), Str(<<"2">>), Str(<<" ">>), None,
         None, None),
     Row(Str(<<"2", "1">>), None, None, None, None, None, None)}

InitLenientHeight ==
    /\ rows \in SeqUpTo(LenientRowDomain, MaxRows)
    /\ config \in {load_config(u) : u \in UserConfigs}
    /\ cell_heights = Empty
    /\ rows_sorted = <<>>
    /\ hpos = 0
    /\ out_rows = <<>>
    /\ GraphIdle
    /\ pc = "hints"

InitLenientGraph ==
    /\ rows = <<>>
    /\ config = DEFAULT_CONFIG
    /\ cell_heights = Empty
    /\ rows_sorted = <<>>
    /\ hpos = 0
    /\ out_rows = <<>>
    /\ grows \in SeqUpTo(LenientGraphDomain, MaxRows)
    /\ merge_siblings \in BOOLEAN
    /\ gpos = 0
    /\ cell_data = Empty
    /\ raw_edges = <<>>
    /\ groups = Empty
    /\ nodes = Empty
    /\ cell_to_node = Empty
    /\ edges = <<>>
    /\ pc = "ingest"

\* process_csv and then build_graph_data on its output, or build_graph_data
\* alone, on rows with defects
InitLenient == InitLenientHeight \/ InitLenientGraph

SpecLenient == InitLenient /\ [][Next]_vars

\* C11: neither process_csv nor build_graph_data raises, whatever fields
\* of the rows are absent, blank or not numbers and whatever the order of
\* the depths.
C11_NeverRaises == pc # "raised"

(***************************************************************************)
(* Node identity and node fields: C12, C13                                 *)
(***************************************************************************)
Least(S) == CHOOSE m \in S : \A x \in S : m <= x

\* C12: the id of every node is "g_" followed by its smallest member cell,
\* distinct groups get distinct ids (as many nodes as groups, each group
\* listed by a node), and cell_to_node maps every cell to the id of the
\* node that lists it.
C12_NodeIds ==
    Built =>
        /\ \A id \in DOMAIN nodes :
               id = <<"g", "_">> \o IntStr(Least(Range(nodes[id].cells)))
        /\ Cardinality(DOMAIN nodes) = Cardinality(DOMAIN groups)
        /\ \A key \in DOMAIN groups :
               \E id \in DOMAIN nodes : Range(nodes[id].cells) = groups[key]
        /\ DOMAIN cell_to_node = DOMAIN cell_data
        /\ \A c \in DOMAIN cell_to_node :
               /\ cell_to_node[c] \in DOMAIN nodes
               /\ c \in Range(nodes[cell_to_node[c]].cells)

\* a merged node beside another node
C12_Witness ==
    /\ Built
    /\ Cardinality(DOMAIN nodes) >= 2
    /\ \E id \in DOMAIN nodes : Len(nodes[id].cells) >= 2

\* C13 as claimed: every member cell of a node has the level stored on the
\* node.
C13_MembersShareLevel ==
    Built =>
        \A id \in DOMAIN nodes :
            \A c \in Range(nodes[id].cells) :
                cell_data[c].level = nodes[id].level

\* C13 as amended: the level stored on a node is the level of its smallest
\* member cell, and so are its result and its height; the other members
\* share result and height with it but not always the level, which is no
\* part of the grouping key.
C13_LevelOfLeastMember ==
    Built =>
        \A id \in DOMAIN nodes :
            LET first == cell_data[Least(Range(nodes[id].cells))]
            IN  /\ nodes[id].level = first.level
                /\ nodes[id].result = first.result
                /\ nodes[id].height = first.height
                /\ \A c \in Range(nodes[id].cells) :
                       /\ cell_data[c].result = first.result
                       /\ cell_data[c].height = first.height

\* a merged node whose members have different levels
C13_Witness ==
    /\ Built
    /\ \E id \in DOMAIN nodes :
           \E c, d \in Range(nodes[id].cells) :
               cell_data[c].level # cell_data[d].level

(***************************************************************************)
(* Heights along edges: C14                                                *)
(***************************************************************************)
\* C14: when the propagator's output for rows in dependency order has gone
\* through build_graph_data, every raw triple (parent, child, level) behind a returned edge has
\* height(parent) <= height(child) in the heights the propagator computed,
\* and every returned edge has height(from) <= height(to) on its nodes.
C14_HeightMonotone ==
    (pc = "done" /\ OrderedInput) =>
        /\ \A i \in 1..Len(raw_edges) :
               (/\ EdgeKept(raw_edges[i], cell_to_node)
                /\ raw_edges[i][1] \in DOMAIN cell_heights
                /\ raw_edges[i][2] \in DOMAIN cell_heights) =>
                   cell_heights[raw_edges[i][1]].t
                       <= cell_heights[raw_edges[i][2]].t
        /\ \A i \in 1..Len(edges) :
               nodes[edges[i][1]].height <= nodes[edges[i][2]].height

(***************************************************************************)
(* Cycles among nodes: C15                                                 *)
(***************************************************************************)
MaxCycleRows == 4

\* rows of a trace in which a cell can be reported twice: cell 20 first
\* with trigger 10 and again with trigger 5
CycleRowDomain ==
    {GRow(<<"1", "0">>, SAFE, <<"1">>, <<"1">>, <<>>, <<"5">>),
     GRow(<<"1", "0">>, SAFE, <<"1">>, <<"1">>, <<>>, <<"2", "1">>),
     GRow(<<"2", "0">>, SAFE, <<"2">>, <<"2">>, <<>>, <<"1", "0">>),
     GRow(<<"2", "0">>, SAFE, <<"2">>, <<"2">>, <<>>, <<"5">>),
     GRow(<<"2", "1">>, SAFE, <<"2">>, <<"2">>, <<>>, <<"5">>)}

\* build_graph_data on such rows
InitCycle ==
    /\ rows = <<>>
    /\ config = DEFAULT_CONFIG
    /\ cell_heights = Empty
    /\ rows_sorted = <<>>
    /\ hpos = 0
    /\ out_rows = <<>>
    /\ grows \in SeqUpTo(CycleRowDomain, MaxCycleRows)
    /\ merge_siblings \in BOOLEAN
    /\ gpos = 0
    /\ cell_data = Empty
    /\ raw_edges = <<>>
    /\ groups = Empty
    /\ nodes = Empty
    /\ cell_to_node = Empty
    /\ edges = <<>>
    /\ pc = "ingest"

SpecCycle == InitCycle /\ [][NextGraph]_vars

\* the transitive closure of a relation given as a set of pairs
RECURSIVE TransitiveClosure(_)
TransitiveClosure(R) ==
    LET R2 == R \cup {<<x[1][1], x[2][2]>> :
                         x \in {y \in R \X R : y[1][2] = y[2][1]}}
    IN  IF R2 = R THEN R ELSE TransitiveClosure(R2)

Acyclic(R) == \A p \in TransitiveClosure(R) : p[1] # p[2]

\* the parent relation of the input: (parent, cell) for every parent that
\* a row of the cell lists in SourceHints or TriggerCells
CellParentRelation ==
    UNION {{<<p, ig_safe_int(grows[i].CellIndex, -1)>> :
               p \in Range(GraphSources(grows[i]))
                     \cup Range(GraphTriggers(grows[i]))} :
           i \in {j \in 1..Len(grows) : ~SkipRow(grows[j])}}

NodeEdgeRelation == {<<edges[i][1], edges[i][2]>> : i \in 1..Len(edges)}

\* C15: when the parent relation of the input has no cycle, the returned
\* edges have no cycle among the nodes.
C15_NodesAcyclic ==
    (pc = "done" /\ Acyclic(CellParentRelation)) => Acyclic(NodeEdgeRelation)

(***************************************************************************)
(* The increment and lenient parsing: C16, C17                             *)
(***************************************************************************)
\* the row the loop of process_csv takes next
NextRow == rows[rows_sorted[hpos + 1]]

TakesRow == pc = "height" /\ hpos < Len(rows) /\ hpos' = hpos + 1

\* C16: the height the loop gives a row of depth other than 0 is the
\* largest height its trigger cells have so far (0 when none has one) plus
\* lv1_depth1 for level 1 at depth 1, lv1_other for level 1 at another
\* depth, and for another level L the value of key lvL, or L when the table
\* has no such key.
C16_Increment ==
    [][(TakesRow /\ RowDepth(NextRow) # 0) =>
          cell_heights'[RowCell(NextRow)].t =
              ParentFloor(NextRow)
                + (IF RowLevel(NextRow) = 1
                   THEN (IF RowDepth(NextRow) = 1
                         THEN config["lv1_depth1"].t
                         ELSE config["lv1_other"].t)
                   ELSE IF "lv" \o NatName(RowLevel(NextRow)) \in DOMAIN config
                        THEN config["lv" \o NatName(RowLevel(NextRow))].t
                        ELSE 10 * RowLevel(NextRow))]_vars

\* rows of level 7 (no key), of level 1 at depth 2 and of level 0 at depth 2
\* have got their heights
C16_Witness ==
    /\ pc = "written"
    /\ \E i \in 1..Len(rows) :
           /\ RowLevel(rows[i]) = 7 /\ RowDepth(rows[i]) # 0
           /\ RowHeight(i).t >= 70
    /\ \E i \in 1..Len(rows) : RowLevel(rows[i]) = 1 /\ RowDepth(rows[i]) = 2
    /\ \E i \in 1..Len(rows) : RowLevel(rows[i]) = 0 /\ RowDepth(rows[i]) = 2

\* field values that are empty or no number
BlankOrBad == {Str(<<>>), Str(<<" ">>), Str(<<"x">>)}

\* Height values build_graph_data cannot use: no column, empty, no integer
NoHeight == {Missing, Str(<<>>), Str(<<"7", ".", "6">>)}

\* the row build_graph_data takes next, and the step that stores it
NextGraphRow == grows[gpos + 1]

StoresRow ==
    /\ pc = "ingest" /\ gpos < Len(grows) /\ gpos' = gpos + 1
    /\ pc' = "ingest"
    /\ ~SkipRow(NextGraphRow)

\* C17: the propagator gives a row whose depth is empty or no number the
\* height 0, and a row whose level is empty or no number the height of its
\* parents plus nothing; the graph builder stores level 0 and no raw edge
\* for a row whose level is empty or no number, and height 0 for a row
\* without a usable Height whose depth is empty or no number.
C17_LenientDefaults ==
    /\ [][(TakesRow /\ NextRow.GenerationDepth \in BlankOrBad) =>
              cell_heights'[RowCell(NextRow)] = IntNum(0)]_vars
    /\ [][(/\ TakesRow
           /\ NextRow.DifficultyLevel \in BlankOrBad
           /\ NextRow.GenerationDepth \notin BlankOrBad) =>
              cell_heights'[RowCell(NextRow)].t = ParentFloor(NextRow)]_vars
    /\ [][(StoresRow /\ NextGraphRow.DifficultyLevel \in BlankOrBad) =>
              /\ raw_edges' = raw_edges
              /\ cell_data'[DigitsVal(NextGraphRow.CellIndex.s)].level = 0]_vars
    /\ [][(/\ StoresRow
           /\ NextGraphRow.Height \in NoHeight
           /\ NextGraphRow.GenerationDepth \in BlankOrBad) =>
              cell_data'[DigitsVal(NextGraphRow.CellIndex.s)].height = 0]_vars

\* the propagator's output has gone through the graph builder with a row
\* of empty level that names a trigger cell and a row of unparseable depth
C17_Witness ==
    /\ pc = "done"
    /\ \E i \in 1..Len(rows) :
           /\ rows[i].DifficultyLevel \in BlankOrBad
           /\ rows[i].GenerationDepth \notin BlankOrBad
           /\ RowTriggers(rows[i]) # {}
    /\ \E i \in 1..Len(rows) : rows[i].GenerationDepth = Str(<<"x">>)

\* the graph builder alone has stored a row with an unusable Height and an
\* unparseable depth and level
GraphAloneLenient ==
    /\ pc = "done"
    /\ rows = <<>>
    /\ \E i \in 1..Len(grows) :
           /\ grows[i].Height \in NoHeight
           /\ grows[i].GenerationDepth \in BlankOrBad
           /\ grows[i].DifficultyLevel \in BlankOrBad

(***************************************************************************)
(* The propagator's heights in the graph: C18                              *)
(***************************************************************************)
\* C18: when the propagator's output for rows in dependency order has gone
\* through build_graph_data, the height stored for every cell, and on the
\* node of the cell, is the height the propagator computed for it.
C18_SameHeight ==
    (Built /\ rows # <<>> /\ OrderedInput) =>
        \A c \in DOMAIN cell_data \cap DOMAIN cell_heights :
            /\ 10 * cell_data[c].height = cell_heights[c].t
            /\ 10 * nodes[cell_to_node[c]].height = cell_heights[c].t

(***************************************************************************)
(* Heights and SourceHints: C20                                            *)
(***************************************************************************)
\* the rows with every SourceHints field emptied
WithoutSourceHints(rs) ==
    [i \in DOMAIN rs |-> [rs[i] EXCEPT !.SourceHints = Str(<<>>)]]

\* C20: when process_csv has finished, the Height of every row and the
\* height of every cell that has a row are those process_csv computes for
\* the same rows with every SourceHints field emptied.
C20_SourceHintsIgnored ==
    pc = "written" =>
        LET pass == HeightPass(WithoutSourceHints(rows), config)
        IN  /\ \A i \in 1..Len(rows) : RowHeight(i) = pass.row_heights[i]
            /\ \A c \in csv_cells(rows) :
                   cell_heights[c] = pass.cell_heights[c]

\* a finished run with a row that names in SourceHints, and not in
\* TriggerCells, a cell whose height is above 0
C20_Witness ==
    /\ pc = "written"
    /\ \E i \in 1..Len(rows) :
           /\ RowDepth(rows[i]) # 0
           /\ \E p \in SourceHintCells(rows[i]) \ RowTriggers(rows[i]) :
                  p \in DOMAIN cell_heights /\ cell_heights[p].t > 0

(***************************************************************************)
(* Mixed levels in a merge group: C21                                      *)
(***************************************************************************)
\* the nodes whose member cells do not all have the same level
MixedLevelNodes ==
    {id \in DOMAIN nodes :
         \E c, d \in Range(nodes[id].cells) :
             cell_data[c].level # cell_data[d].level}

\* C21: when build_graph_data has returned and the members of a node do not
\* all have the same level, the run has not failed, the node has the level
\* of one of its members, and the node carries a flag for the mismatch
\* beside its cells, result, height and level.
C21_MismatchFlagged ==
    (pc = "done" /\ MixedLevelNodes # {}) =>
        \A id \in MixedLevelNodes :
            /\ \E c \in Range(nodes[id].cells) :
                   nodes[id].level = cell_data[c].level
            /\ DOMAIN nodes[id] # {"cells", "result", "height", "level"}

(***************************************************************************)
(* The member lists of the nodes: C22                                      *)
(***************************************************************************)
\* main, line 313: sum(len(data["cells"]) for data in nodes.values())
RECURSIVE SumCells(_, _)
SumCells(ns, ids) ==
    IF ids = {} THEN 0
    ELSE LET id == CHOOSE x \in ids : TRUE
         IN  Len(ns[id].cells) + SumCells(ns, ids \ {id})

total_cells(ns) == SumCells(ns, DOMAIN ns)

\* main, line 314: the number of nodes with more than one cell
merged_count(ns) == Cardinality({id \in DOMAIN ns : Len(ns[id].cells) > 1})

\* C22: with merging on or off, every valid cell id of the input is in
\* the member list of exactly one returned node, every member list is
\* non-empty, strictly ascending and made of valid cell ids, and the
\* member counts add up to the number of distinct valid cell ids.
C22_MembersPartition ==
    Built =>
        /\ \A c \in GoodCells :
               Cardinality({id \in DOMAIN nodes :
                               c \in Range(nodes[id].cells)}) = 1
        /\ \A id \in DOMAIN nodes :
               /\ nodes[id].cells # <<>>
               /\ Range(nodes[id].cells) \subseteq GoodCells
               /\ \A i, j \in 1..Len(nodes[id].cells) :
                      i < j => nodes[id].cells[i] < nodes[id].cells[j]
        /\ total_cells(nodes) = Cardinality(GoodCells)

\* a returned graph with a merged node, from rows of which one has no
\* valid cell id
C22_Witness ==
    /\ pc = "done"
    /\ merged_count(nodes) >= 1
    /\ \E i \in 1..Len(grows) : grows[i].CellIndex \in BadCellIndex

(***************************************************************************)
(* Parents without a row: C23                                              *)
(***************************************************************************)
\* the trigger cells of the rows that have no row of their own
AbsentTriggers ==
    UNION {RowTriggers(rows[i]) : i \in 1..Len(rows)} \ csv_cells(rows)

\* C23: a trigger cell without a row has height 0 from the start of the
\* loop to the end, and a row of depth other than 0 whose trigger cells
\* (if any) all have no row gets the height 0 + increment(level, depth);
\* the step does not raise.
C23_AbsentParentIsZero ==
    /\ [](pc \in {"sort", "height", "written"} =>
              \A c \in AbsentTriggers :
                  c \in DOMAIN cell_heights /\ cell_heights[c] = IntNum(0))
    /\ [][(/\ TakesRow
           /\ RowDepth(NextRow) # 0
           /\ RowTriggers(NextRow) \cap csv_cells(rows) = {}) =>
              /\ pc' # "raised"
              /\ cell_heights'[RowCell(NextRow)].t =
                     Increment(RowLevel(NextRow), RowDepth(NextRow))
              /\ rows'[rows_sorted[hpos + 1]].Height.s[1].t =
                     Increment(RowLevel(NextRow), RowDepth(NextRow))]_vars

\* a finished run with a row whose only trigger cell has no row and a row
\* without trigger cells, both with a height above 0
C23_Witness ==
    /\ pc = "written"
    /\ \E i \in 1..Len(rows) :
           /\ RowDepth(rows[i]) # 0
           /\ RowTriggers(rows[i]) # {}
           /\ RowTriggers(rows[i]) \cap csv_cells(rows) = {}
           /\ RowHeight(i).t > 0
    /\ \E i \in 1..Len(rows) :
           /\ RowDepth(rows[i]) # 0
           /\ RowTriggers(rows[i]) = {}
           /\ RowHeight(i).t > 0

(***************************************************************************)
(* Edges and the stored cell data: C24                                     *)
(***************************************************************************)
\* C24: for every returned edge (from, to, level), a member cell of the
\* node to has that level in cell_data and has a member cell of the node
\* from among its stored parents.
C24_EdgeHasRecordedParent ==
    pc = "done" =>
        \A i \in 1..Len(edges) :
            \E c \in Range(nodes[edges[i][2]].cells) :
                /\ cell_data[c].level = edges[i][3]
                /\ \E p \in Range(nodes[edges[i][1]].cells) :
                       p \in cell_data[c].parents

(***************************************************************************)
(* The written rows: C25                                                   *)
(***************************************************************************)
\* rows of a trace that already has a Height column
RewriteRow(cell, depth, level, trig, height) ==
    Row(Str(cell), Str(SAFE), Str(depth), Str(level), Str(<<>>), Str(trig),
        Str(height))

RewriteRowDomain ==
    {RewriteRow(<<"5">>, <<"0">>, <<"0">>, <<>>, <<"0">>),
     RewriteRow(<<"1", "0">>, <<"1">>, <<"1">>, <<"5">>, <<"9">>),
     RewriteRow(<<"1", "0">>, <<"1">>, <<"1">>, <<"5">>, <<"1">>),
     RewriteRow(<<"2", "0">>, <<"2">>, <<"2">>, <<"1", "0">>, <<"9">>),
     RewriteRow(<<"2", "0">>, <<"1">>, <<"4">>, <<"5">>, <<"6">>)}

\* process_csv on such rows
InitRewrite ==
    /\ rows \in SeqUpTo(RewriteRowDomain, MaxRows)
    /\ config \in {load_config(u) : u \in UserConfigs}
    /\ cell_heights = Empty
    /\ rows_sorted = <<>>
    /\ hpos = 0
    /\ out_rows = <<>>
    /\ GraphIdle
    /\ pc = "hints"

SpecRewrite == InitRewrite /\ [][NextHeight]_vars

FieldNames ==
    {"CellIndex", "Result", "GenerationDepth", "DifficultyLevel",
     "SourceHints", "TriggerCells", "Height"}

\* C25: the loop takes the rows by ascending depth and leaves every field
\* that the input row has with the text it was read with; the output has
\* as many rows as the input, in the input order, with every field other
\* than Height as in the row and with a Height.  The loop steps are those
\* that change hpos.
C25_RowsKept ==
    /\ [][(TakesRow /\ hpos + 2 <= Len(rows)) =>
              RowDepth(NextRow) <= RowDepth(rows[rows_sorted[hpos + 2]])]_hpos
    /\ [][TakesRow =>
              \A f \in FieldNames :
                  NextRow[f].k # "missing" =>
                      Written(rows'[rows_sorted[hpos + 1]][f])
                          = Written(NextRow[f])]_hpos
    /\ [](pc = "written" =>
              /\ Len(out_rows) = Len(rows)
              /\ \A i \in 1..Len(rows) :
                     /\ \A f \in FieldNames \ {"Height"} :
                            out_rows[i][f] = rows[i][f]
                     /\ out_rows[i].Height.k = "str"
                     /\ out_rows[i].Height.s # <<>>)

=============================================================================
